---- MODULE Spec2Model ----
(***************************************************************************)
(* Model of the editor-plugin adapters of hackatime-setup:                 *)
(*   src/src/editor_plugins/zed.rs        Zed (settings.json patching)     *)
(*   src/src/editor_plugins/vscode.rs     VsCodeFamily (CLI installer)     *)
(*   src/src/editor_plugins/jetbrains.rs  JetBrainsFamily (CLI installer)  *)
(*   src/src/editor_plugins/utils.rs      is_process_running               *)
(*                                                                         *)
(* A settings document is a sequence of lexical tokens.  All whitespace    *)
(* runs are the one token " ", comments are the tokens "//a" and "//b",    *)
(* quoted strings are written without their quotes.                        *)
(***************************************************************************)
EXTENDS Integers, Sequences, FiniteSets

VARIABLES
    configDir,   \* Zed::config_dir(): "known" or "none"
    dirExists,   \* the parent directory of settings.json exists
    fileExists,  \* settings.json exists
    file,        \* content of settings.json (token sequence)
    hist,        \* the last two Zed install() calls, oldest first
    editor,      \* the JetBrainsFamily / VsCodeFamily descriptor under install
    env,         \* the host: platform, home, variables, search path, disk, installer
    probe,       \* what the process-table query would report right now
    runs         \* the last two JetBrains / VS Code install() calls, oldest first

zedVars == <<configDir, dirExists, fileExists, file, hist>>
cliVars == <<editor, env, probe, runs>>
vars == <<configDir, dirExists, fileExists, file, hist, editor, env, probe, runs>>

\* ------------------------------------------------------------------ bounds
MaxPad == 1      \* unrelated members before/after the interesting member

\* ------------------------------------------------------------------ tokens
AIE == "auto_install_extensions"
WAKATIME == "wakatime"

Whitespace == {" "}
Comments == {"//a", "//b"}
Trivia == Whitespace \cup Comments
Strings == {AIE, WAKATIME, "foo", "bar"}
Scalars == {"true", "false", "5"}

\* ------------------------------------------------------------------ CST
Tok(s) == [k |-> "tok", s |-> s, ch |-> <<>>]
Node(kind, children) == [k |-> kind, s |-> "", ch |-> children]

Toks(t, i, j) == [n \in 1..(IF j >= i THEN j - i + 1 ELSE 0) |-> Tok(t[i + n - 1])]

RECURSIVE Skip(_, _)
Skip(t, i) == IF i <= Len(t) /\ t[i] \in Trivia THEN Skip(t, i + 1) ELSE i

ParseFail == [ok |-> FALSE, node |-> Tok(""), next |-> 0]

RECURSIVE ParseValue(_, _)
RECURSIVE ParseObjBody(_, _, _, _)
RECURSIVE ParseArrBody(_, _, _, _)

ParseValue(t, i) ==
    IF i > Len(t) THEN ParseFail
    ELSE IF t[i] \in Scalars \cup Strings
         THEN [ok |-> TRUE, node |-> Tok(t[i]), next |-> i + 1]
    ELSE IF t[i] = "{" THEN ParseObjBody(t, i + 1, <<Tok("{")>>, "key")
    ELSE IF t[i] = "[" THEN ParseArrBody(t, i + 1, <<Tok("[")>>, "val")
    ELSE ParseFail

ParseObjBody(t, i, acc, mode) ==
    IF i > Len(t) THEN ParseFail
    ELSE IF t[i] \in Trivia THEN ParseObjBody(t, i + 1, Append(acc, Tok(t[i])), mode)
    ELSE IF t[i] = "}"
         THEN [ok |-> TRUE, node |-> Node("obj", Append(acc, Tok("}"))), next |-> i + 1]
    ELSE IF mode = "sep"
         THEN IF t[i] = ","
              THEN ParseObjBody(t, i + 1, Append(acc, Tok(",")), "key")
              ELSE ParseFail
    ELSE IF t[i] \in Strings
         THEN LET j == Skip(t, i + 1)
                  c == Skip(t, j + 1)
                  v == ParseValue(t, c)
              IN  IF j <= Len(t) /\ t[j] = ":" /\ v.ok
                  THEN ParseObjBody(t, v.next,
                           Append(acc, Node("prop",
                               <<Tok(t[i])>> \o Toks(t, i + 1, j - 1) \o <<Tok(":")>>
                               \o Toks(t, j + 1, c - 1) \o <<v.node>>)),
                           "sep")
                  ELSE ParseFail
    ELSE ParseFail

ParseArrBody(t, i, acc, mode) ==
    IF i > Len(t) THEN ParseFail
    ELSE IF t[i] \in Trivia THEN ParseArrBody(t, i + 1, Append(acc, Tok(t[i])), mode)
    ELSE IF t[i] = "]"
         THEN [ok |-> TRUE, node |-> Node("arr", Append(acc, Tok("]"))), next |-> i + 1]
    ELSE IF mode = "sep"
         THEN IF t[i] = ","
              THEN ParseArrBody(t, i + 1, Append(acc, Tok(",")), "val")
              ELSE ParseFail
    ELSE LET v == ParseValue(t, i)
         IN  IF v.ok THEN ParseArrBody(t, v.next, Append(acc, v.node), "sep")
             ELSE ParseFail

\* CstRootNode::parse: leading trivia, at most one value, trailing trivia.
Parse(t) ==
    LET i == Skip(t, 1)
        v == ParseValue(t, i)
    IN  IF i > Len(t)
        THEN [ok |-> TRUE, root |-> Node("root", Toks(t, 1, Len(t)))]
        ELSE IF v.ok /\ Skip(t, v.next) > Len(t)
             THEN [ok |-> TRUE,
                   root |-> Node("root", Toks(t, 1, i - 1) \o <<v.node>>
                                         \o Toks(t, v.next, Len(t)))]
             ELSE [ok |-> FALSE, root |-> Node("root", <<>>)]

\* CstRootNode::to_string: the text of the leaves, left to right.
RECURSIVE to_string(_)
RECURSIVE to_string_all(_)
to_string_all(nodes) ==
    IF nodes = <<>> THEN <<>> ELSE to_string(Head(nodes)) \o to_string_all(Tail(nodes))

\* Faulty variant of to_string: re-encoding the values alone, which loses the comments.
to_string_values_only(n) ==
    IF n.k = "tok" THEN (IF n.s \in Comments THEN <<>> ELSE <<n.s>>) ELSE to_string_all(n.ch)

to_string(n) == IF n.k = "tok" THEN <<n.s>> ELSE to_string_all(n.ch)

\* ------------------------------------------------------------------ CST edits
TrueValue == Tok("true")                                  \* json!(true)
EmptyObject == Node("obj", <<Tok("{"), Tok("}")>>)

Range(f) == {f[i] : i \in DOMAIN f}
\* History of calls: the last two are kept.
Remember(h, call) == IF Len(h) < 2 THEN Append(h, call) ELSE <<h[2], call>>

MinOf(S) == CHOOSE x \in S : \A y \in S : x <= y
MaxOf(S) == CHOOSE x \in S : \A y \in S : x >= y

InsertAfter(seq, i, items) == SubSeq(seq, 1, i) \o items \o SubSeq(seq, i + 1, Len(seq))

PropIndexes(obj) == {i \in DOMAIN obj.ch : obj.ch[i].k = "prop"}
PropName(prop) == prop.ch[1].s
PropValue(prop) == prop.ch[Len(prop.ch)]

\* CstObject::get: the first property of that name (0 when there is none).
Get(obj, name) ==
    LET hits == {i \in PropIndexes(obj) : PropName(obj.ch[i]) = name}
    IN  IF hits = {} THEN 0 ELSE MinOf(hits)

\* CstObject::append: a new last member; an existing trailing comma is kept.
AppendProp(obj, name, value) ==
    LET prop == Node("prop", <<Tok(name), Tok(":"), Tok(" "), value>>)
        props == PropIndexes(obj)
        last == MaxOf(props)
        commas == {i \in DOMAIN obj.ch : i > last /\ obj.ch[i] = Tok(",")}
    IN  IF props = {}
        THEN [obj EXCEPT !.ch = InsertAfter(@, 1, <<Tok(" "), prop, Tok(" ")>>)]
        ELSE IF commas # {}
        THEN [obj EXCEPT !.ch = InsertAfter(@, MinOf(commas), <<Tok(" "), prop, Tok(",")>>)]
        ELSE [obj EXCEPT !.ch = InsertAfter(@, last, <<Tok(","), Tok(" "), prop>>)]

\* CstObjectProp::set_value: only the value subtree is replaced.
SetValue(prop, value) == [prop EXCEPT !.ch[Len(prop.ch)] = value]

\* Faulty variant of ObjectValueOrCreate: object_value_or_set, which replaces a
\* non-object value by an empty object.
ObjectValueOrSet(obj, name) ==
    LET at == Get(obj, name)
        made == AppendProp(obj, name, EmptyObject)
    IN  IF at = 0 THEN [ok |-> TRUE, obj |-> made, at |-> Get(made, name)]
        ELSE IF PropValue(obj.ch[at]).k = "obj" THEN [ok |-> TRUE, obj |-> obj, at |-> at]
        ELSE [ok |-> TRUE, obj |-> [obj EXCEPT !.ch[at] = SetValue(@, EmptyObject)], at |-> at]

\* CstObject::object_value_or_create(name): the member's object value, created
\* empty when the member is missing; no result when the member holds a non-object.
ObjectValueOrCreate(obj, name) ==
    LET at == Get(obj, name)
        made == AppendProp(obj, name, EmptyObject)
    IN  IF at = 0 THEN [ok |-> TRUE, obj |-> made, at |-> Get(made, name)]
        ELSE IF PropValue(obj.ch[at]).k = "obj" THEN [ok |-> TRUE, obj |-> obj, at |-> at]
        ELSE [ok |-> FALSE, obj |-> obj, at |-> 0]

\* CstRootNode::object_value_or_create(): the root value when it is an object,
\* created when the document has no value; no result for any other root value.
RootValueIndexes(root) ==
    {i \in DOMAIN root.ch : ~(root.ch[i].k = "tok" /\ root.ch[i].s \in Trivia)}

RootObjectValueOrCreate(root) ==
    LET vals == RootValueIndexes(root)
        at == MinOf(vals)
    IN  IF vals = {}
        THEN [ok |-> TRUE, root |-> [root EXCEPT !.ch = Append(@, EmptyObject)],
              at |-> Len(root.ch) + 1]
        ELSE IF root.ch[at].k = "obj" THEN [ok |-> TRUE, root |-> root, at |-> at]
        ELSE [ok |-> FALSE, root |-> root, at |-> 0]

\* ------------------------------------------------------------------ Zed
\* str::trim().is_empty()
IsBlank(s) == \A i \in DOMAIN s : s[i] \in Whitespace

\* Faulty variant of SetWakatime: appends without looking for an existing member.
SetWakatimeAlwaysAppend(extensions) == AppendProp(extensions, WAKATIME, TrueValue)

\* zed.rs 107-114: set wakatime to true in the extensions object.
SetWakatime(extensions) ==
    LET at == Get(extensions, WAKATIME)
    IN  IF at = 0 THEN AppendProp(extensions, WAKATIME, TrueValue)
        ELSE [extensions EXCEPT !.ch[at] = SetValue(@, TrueValue)]

\* zed.rs 84-94: the text handed to the parser.
ReadContent(exists, s) == IF exists /\ ~IsBlank(s) THEN s ELSE <<"{", "}">>

\* zed.rs 99-114 and the to_string of 119: patch a parsed document.
PatchParsed(p, content) ==
    LET r == RootObjectValueOrCreate(p.root)
        e == ObjectValueOrCreate(r.root.ch[r.at], AIE)
        prop == e.obj.ch[e.at]
        patched == [e.obj EXCEPT !.ch[e.at] = SetValue(@, SetWakatime(PropValue(prop)))]
    IN  IF ~p.ok THEN [res |-> "parse_error", text |-> content]
        ELSE IF ~r.ok THEN [res |-> "root_not_object", text |-> content]
        ELSE IF ~e.ok THEN [res |-> "extensions_not_object", text |-> content]
        ELSE [res |-> "ok", text |-> to_string([r.root EXCEPT !.ch[r.at] = patched])]

\* Faulty variant of Patch: a document that does not parse is replaced by {}.
PatchOrReset(content) ==
    PatchParsed(IF Parse(content).ok THEN Parse(content) ELSE Parse(<<"{", "}">>), content)

\* zed.rs 96-114: parse and patch in memory.  res is "ok" or the error.
Patch(content) == PatchParsed(Parse(content), content)

Faults == {"none", "read", "mkdir", "write"}

\* Faulty variant of create_dir_all: the directory is not created.
create_dir_skipped(dir, fault) == [ok |-> fault # "mkdir", dir |-> dir]

\* fs::create_dir_all(parent)
create_dir_all(dir, fault) ==
    IF fault = "mkdir" THEN [ok |-> FALSE, dir |-> dir] ELSE [ok |-> TRUE, dir |-> TRUE]

\* fs::write(settings_path, text): needs the parent directory.
fs_write(dir, fault) == dir /\ fault # "write"

\* Zed::add_extension_to_settings, the whole call: the result and the
\* filesystem it leaves.  fault names the I/O call the OS fails, if any;
\* patched is Patch(ReadContent(fileExists, file)), lines 84-114.
add_extension_to_settings(fault, patched) ==
    LET keep == [dir |-> dirExists, exists |-> fileExists, text |-> file]
        mk == create_dir_all(dirExists, fault)
    IN  IF fileExists /\ fault = "read" THEN [res |-> "read_error", fs |-> keep]
        ELSE IF patched.res # "ok" THEN [res |-> patched.res, fs |-> keep]
        ELSE IF ~mk.ok THEN [res |-> "mkdir_error", fs |-> keep]
        ELSE IF ~fs_write(mk.dir, fault)
             THEN [res |-> "write_error", fs |-> [keep EXCEPT !.dir = mk.dir]]
        ELSE [res |-> "ok", fs |-> [dir |-> mk.dir, exists |-> TRUE, text |-> patched.text]]

\* Zed::install.  patched is passed in because it does not depend on fault.
ZedInstall(fault, patched) ==
    LET pre == [dir |-> dirExists, exists |-> fileExists, text |-> file]
        out == IF configDir = "none"
               THEN [res |-> "no_config_dir", fs |-> pre]
               ELSE add_extension_to_settings(fault, patched)
    IN  /\ dirExists' = out.fs.dir
        /\ fileExists' = out.fs.exists
        /\ file' = out.fs.text
        /\ hist' = Remember(hist, [fault |-> fault, pre |-> pre, res |-> out.res,
                                   post |-> out.fs])
        /\ UNCHANGED configDir

\* ------------------------------------------------------------------ documents
\* The settings files install() may find: objects with and without the
\* auto_install_extensions member, in three writing styles, some of them damaged.
Styles == { [sp |-> FALSE, cm |-> FALSE, tc |-> FALSE],
            [sp |-> TRUE,  cm |-> TRUE,  tc |-> FALSE],
            [sp |-> TRUE,  cm |-> FALSE, tc |-> TRUE] }

Space(st) == IF st.sp THEN <<" ">> ELSE <<>>
Member(key, val, st) == <<key, ":">> \o Space(st) \o val

RECURSIVE Join(_, _, _)
Join(ms, st, cmt) ==
    IF ms = <<>> THEN <<>>
    ELSE IF Len(ms) = 1 THEN Head(ms)
    ELSE Head(ms) \o <<",">> \o (IF st.cm THEN <<" ", cmt>> ELSE <<>>) \o Space(st)
         \o Join(Tail(ms), st, cmt)

Object(ms, st, cmt) ==
    <<"{">> \o (IF st.cm THEN <<" ", cmt>> ELSE <<>>) \o Space(st) \o Join(ms, st, cmt)
    \o (IF st.tc /\ ms # <<>> THEN <<",">> ELSE <<>>) \o Space(st) \o <<"}">>

Repeat(m, n) == [i \in 1..n |-> m]

WakatimeValues == {<<"true">>, <<"false">>, <<"{", "bar", ":", "5", "}">>}
WakatimeOptions(st) ==
    {<<>>} \cup {<<Member(WAKATIME, v, st)>> : v \in WakatimeValues}
    \cup {<<Member(WAKATIME, <<"false">>, st), Member(WAKATIME, <<"false">>, st)>>}

ExtensionObjects(st) ==
    { Object(Repeat(Member("bar", <<"5">>, st), i) \o w
             \o Repeat(Member("bar", <<"5">>, st), j), st, "//b")
      : i \in 0..MaxPad, j \in 0..MaxPad, w \in WakatimeOptions(st) }

NonObjects == {<<"5">>, <<"foo">>, <<"[", "5", "]">>}

ExtensionsOptions(st) ==
    {<<>>} \cup {<<Member(AIE, v, st)>> : v \in NonObjects \cup ExtensionObjects(st)}

RootObjectsIn(st) ==
    { Object(Repeat(Member("foo", <<"5">>, st), i) \o a
             \o Repeat(Member("foo", <<"5">>, st), j), st, "//a")
      : i \in 0..MaxPad, j \in 0..MaxPad, a \in ExtensionsOptions(st) }

RootObjects == UNION {RootObjectsIn(st) : st \in Styles}

RemoveAt(t, i) == SubSeq(t, 1, i - 1) \o SubSeq(t, i + 1, Len(t))
FirstIndexOf(t, tok) ==
    LET hits == {i \in DOMAIN t : t[i] = tok} IN IF hits = {} THEN 0 ELSE MinOf(hits)

Damages == {"none", "no_close", "no_colon", "extra_close"}
Damage(t, kind) ==
    CASE kind = "none" -> t
      [] kind = "no_close" -> SubSeq(t, 1, Len(t) - 1)
      [] kind = "no_colon" -> IF FirstIndexOf(t, ":") = 0 THEN t
                              ELSE RemoveAt(t, FirstIndexOf(t, ":"))
      [] kind = "extra_close" -> Append(t, "}")

Blanks == {<<>>, <<" ">>, <<" ", " ">>}
Documents ==
    {Damage(d, kind) : d \in RootObjects, kind \in Damages}
    \cup Blanks \cup NonObjects
    \cup {<<"//a">>, <<" ", "//a", " ">>, <<"//a", "5">>, <<"{", "}", "//b">>,
          <<"{", ",", "}">>, <<"{", "foo", ":", "5", ",", ",", "}">>,
          <<"foo", ":", "5">>, <<"{", "}", "{", "}">>}

\* ------------------------------------------------------------------ Zed spec
CliIdle ==
    /\ editor = [family |-> "none", name |-> "", cli_command |-> "", apps |-> <<>>,
                 folder |-> ""]
    /\ env = [platform |-> "linux", home |-> FALSE, vars |-> {}, onPath |-> FALSE,
              whichTool |-> "works", disk |-> {}, installer |-> "exit0"]
    /\ probe = "not_running"
    /\ runs = <<>>

InitZed ==
    /\ CliIdle
    /\ hist = <<>>
    /\ \/ configDir = "none" /\ dirExists = FALSE /\ fileExists = FALSE /\ file = <<>>
       \/ configDir = "known" /\ dirExists \in BOOLEAN /\ fileExists = FALSE /\ file = <<>>
       \/ configDir = "known" /\ dirExists = TRUE /\ fileExists = TRUE /\ file \in Documents

NextZed ==
    LET patched == Patch(ReadContent(fileExists, file))
    IN  \E fault \in Faults : ZedInstall(fault, patched) /\ UNCHANGED cliVars

SpecZed == InitZed /\ [][NextZed]_vars

\* ------------------------------------------------------------------ CLI adapters
None == <<>>
Some(x) == <<x>>

\* Descriptors (static data of the adapters' callers): one per family.
Editors ==
    { [family |-> "jetbrains", name |-> "IntelliJ IDEA", cli_command |-> "idea",
       apps |-> <<"IntelliJ IDEA", "IntelliJ IDEA CE">>, folder |-> ""],
      [family |-> "vscode", name |-> "VS Code", cli_command |-> "code",
       apps |-> <<"Visual Studio Code">>, folder |-> "Microsoft VS Code"] }

If(c, seq) == IF c THEN seq ELSE <<>>

\* VsCodeFamily::get_fallback_paths
get_fallback_paths(e, h) ==
    LET cli == e.cli_command
        app_path == <<"Applications/", e.apps[1], ".app/Contents/Resources/app/bin/", cli>>
        binary == <<cli, ".cmd">>
    IN  CASE h.platform = "macos" ->
               <<(<<"/">> \o app_path)>> \o If(h.home, <<(<<"~/">> \o app_path)>>)
          [] h.platform = "linux" ->
               << <<"/usr/bin/", cli>>, <<"/usr/local/bin/", cli>>, <<"/snap/bin/", cli>> >>
               \o If(h.home, << <<"~/", ".local/bin/", cli>> >>)
          [] h.platform = "windows" ->
               If("LOCALAPPDATA" \in h.vars,
                  <<(<<"%LOCALAPPDATA%", "\\Programs\\", e.folder, "\\bin\\">> \o binary)>>)
               \o If("ProgramFiles" \in h.vars,
                  <<(<<"%ProgramFiles%", "\\", e.folder, "\\bin\\">> \o binary)>>)
               \o If("ProgramFiles(x86)" \in h.vars,
                  <<(<<"%ProgramFiles(x86)%", "\\", e.folder, "\\bin\\">> \o binary)>>)

\* JetBrainsFamily::get_cli_paths
get_cli_paths(e, h) ==
    LET cli == e.cli_command
        n == Len(e.apps)
        sys(a) == <<"/Applications/", a, ".app/Contents/MacOS/", cli>>
        usr(a) == <<"~/", "Applications/", a, ".app/Contents/MacOS/", cli>>
    IN  CASE h.platform = "macos" ->
               IF h.home
               THEN [i \in 1..(2 * n) |-> IF i % 2 = 1 THEN sys(e.apps[(i + 1) \div 2])
                                          ELSE usr(e.apps[i \div 2])]
               ELSE [i \in 1..n |-> sys(e.apps[i])]
          [] h.platform = "linux" ->
               If(h.home, << <<"~/", ".local/share/JetBrains/Toolbox/apps/", cli, "/bin/", cli>> >>)
               \o << <<"/opt/", cli, "/bin/", cli>>, <<"/usr/local/bin/", cli>>,
                     <<"/snap/bin/", cli>> >>
          [] h.platform = "windows" ->
               If("LOCALAPPDATA" \in h.vars,
                  << <<"%LOCALAPPDATA%", "/JetBrains/Toolbox/apps/", cli, "/bin/", cli, ".cmd">> >>)
               \o If("ProgramFiles" \in h.vars,
                     [i \in 1..n |-> <<"%ProgramFiles%", "/JetBrains/", e.apps[i], "/bin/", cli, ".bat">>])

\* Faulty variant of FindExisting: the last existing path instead of the first.
FindExistingLast(paths, started) ==
    LET hits == {i \in DOMAIN paths : paths[i] \in env.disk}
    IN  IF hits = {} THEN [cli |-> None, probed |-> paths, procs |-> started]
        ELSE [cli |-> Some(paths[MaxOf(hits)]), probed |-> paths, procs |-> started]

\* Iterator::find(|path| path.exists()) over an ordered list: the first existing
\* path, and the paths whose existence was tested on the way.
FindExisting(paths, started) ==
    LET hits == {i \in DOMAIN paths : paths[i] \in env.disk}
    IN  IF hits = {} THEN [cli |-> None, probed |-> paths, procs |-> started]
        ELSE [cli |-> Some(paths[MinOf(hits)]), probed |-> SubSeq(paths, 1, MinOf(hits)),
              procs |-> started]

\* What the search path resolves the command to.
OnPath(cli) == <<"$PATH/", cli>>

\* VsCodeFamily::find_cli
VsCodeFindCli(e) ==
    IF env.onPath
    THEN [cli |-> Some(OnPath(e.cli_command)), probed |-> <<>>, procs |-> <<>>]
    ELSE FindExisting(get_fallback_paths(e, env), <<>>)

\* Faulty variant of JetBrainsFindCli: the known paths are tried before the search path.
JetBrainsFindCliKnownPathsFirst(e) ==
    LET f == FindExisting(get_cli_paths(e, env), <<>>)
    IN  IF f.cli # None THEN f
        ELSE IF env.onPath /\ (env.platform = "windows" \/ env.whichTool = "works")
        THEN [f EXCEPT !.cli = Some(IF env.platform = "windows" THEN <<e.cli_command>>
                                    ELSE OnPath(e.cli_command))]
        ELSE f

\* JetBrainsFamily::find_cli
JetBrainsFindCli(e) ==
    IF env.platform = "windows"
    THEN IF env.onPath
         THEN [cli |-> Some(<<e.cli_command>>), probed |-> <<>>,
               procs |-> << << <<e.cli_command>>, <<"--version">> >> >>]
         ELSE FindExisting(get_cli_paths(e, env), <<>>)
    ELSE LET started == If(env.whichTool # "unavailable", << << <<"which">>, <<e.cli_command>> >> >>)
         IN  IF env.whichTool = "works" /\ env.onPath
             THEN [cli |-> Some(OnPath(e.cli_command)), probed |-> <<>>, procs |-> started]
             ELSE FindExisting(get_cli_paths(e, env), started)

\* utils.rs is_process_running / JetBrainsFamily::is_running: the answer, and the
\* query process that ran (none when the query command could not be started).
is_process_running(name) ==
    LET query == IF env.platform = "windows"
                 THEN << <<"tasklist">>, <<"/FI">>, <<"IMAGENAME eq ", name, ".exe">> >>
                 ELSE << <<"pgrep">>, <<"-i">>, <<name>> >>
    IN  [running |-> probe = "running",
         procs |-> If(probe # "probe_failed", <<query>>)]

Result(kind, name) == [kind |-> kind, editor |-> name]

\* Faulty variant of RunInstaller: the exit status is not looked at.
RunInstallerIgnoringStatus(argv, spawnError, exitError) ==
    IF env.installer = "spawn_fail"
    THEN [result |-> spawnError, procs |-> <<>>, installs |-> <<argv>>]
    ELSE [result |-> Result("Ok", ""), procs |-> <<argv>>, installs |-> <<argv>>]

\* Command::status() of the installer and the match on its exit status.
RunInstaller(argv, spawnError, exitError) ==
    CASE env.installer = "spawn_fail" ->
             [result |-> spawnError, procs |-> <<>>, installs |-> <<argv>>]
      [] env.installer = "exit_nonzero" ->
             [result |-> exitError, procs |-> <<argv>>, installs |-> <<argv>>]
      [] env.installer = "exit0" ->
             [result |-> Result("Ok", ""), procs |-> <<argv>>, installs |-> <<argv>>]

\* Faulty variant of JetBrainsInstallCall: a running editor cancels the install.
JetBrainsInstallCallBlocking(e) ==
    LET r == is_process_running(e.cli_command)
        f == JetBrainsFindCli(e)
        i == RunInstaller(<<f.cli[1], <<"installPlugins">>, <<"com.wakatime.intellij.plugin">> >>,
                          Result("SpawnFailure", ""), Result("ExitFailure", e.name))
        seen == [family |-> e.family, probe |-> probe, warned |-> r.running,
                 cli |-> f.cli, probed |-> f.probed]
    IN  IF r.running
        THEN [call |-> [seen EXCEPT !.cli = None, !.probed = <<>>], procs |-> r.procs,
              installs |-> <<>>, result |-> Result("EditorRunning", e.name)]
        ELSE IF f.cli = None
        THEN [call |-> seen, procs |-> r.procs \o f.procs, installs |-> <<>>,
              result |-> Result("NotFound", e.name)]
        ELSE [call |-> seen, procs |-> r.procs \o f.procs \o i.procs,
              installs |-> i.installs, result |-> i.result]

\* JetBrainsFamily::install, the whole call
JetBrainsInstallCall(e) ==
    LET r == is_process_running(e.cli_command)
        f == JetBrainsFindCli(e)
        i == RunInstaller(<<f.cli[1], <<"installPlugins">>, <<"com.wakatime.intellij.plugin">> >>,
                          Result("SpawnFailure", ""), Result("ExitFailure", e.name))
        seen == [family |-> e.family, probe |-> probe, warned |-> r.running,
                 cli |-> f.cli, probed |-> f.probed]
    IN  IF f.cli = None
        THEN [call |-> seen, procs |-> r.procs \o f.procs, installs |-> <<>>,
              result |-> Result("NotFound", e.name)]
        ELSE [call |-> seen, procs |-> r.procs \o f.procs \o i.procs,
              installs |-> i.installs, result |-> i.result]

\* Faulty variant of VsCodeInstallCall: an unresolved CLI falls back to the bare command.
VsCodeInstallCallBareCommand(e) ==
    LET f == VsCodeFindCli(e)
        cli == IF f.cli = None THEN <<e.cli_command>> ELSE f.cli[1]
        i == RunInstaller(<<cli, <<"--install-extension">>, <<"WakaTime.vscode-wakatime">> >>,
                          Result("SpawnFailure", ""), Result("ExitFailure", e.name))
    IN  [call |-> [family |-> e.family, probe |-> probe, warned |-> FALSE,
                   cli |-> f.cli, probed |-> f.probed],
         procs |-> f.procs \o i.procs, installs |-> i.installs, result |-> i.result]

\* VsCodeFamily::install, the whole call
VsCodeInstallCall(e) ==
    LET f == VsCodeFindCli(e)
        tail == << <<"--install-extension">>, <<"WakaTime.vscode-wakatime">> >>
        argv == IF env.platform = "windows"
                THEN << <<"cmd">>, <<"/C">>, f.cli[1] >> \o tail
                ELSE <<f.cli[1]>> \o tail
        i == RunInstaller(argv, Result("SpawnFailure", ""), Result("ExitFailure", e.name))
        seen == [family |-> e.family, probe |-> probe, warned |-> FALSE,
                 cli |-> f.cli, probed |-> f.probed]
    IN  IF f.cli = None
        THEN [call |-> seen, procs |-> f.procs, installs |-> <<>>,
              result |-> Result("NotFound", e.name)]
        ELSE [call |-> seen, procs |-> f.procs \o i.procs,
              installs |-> i.installs, result |-> i.result]

JetBrainsInstall ==
    /\ editor.family = "jetbrains"
    /\ runs' = Remember(runs, JetBrainsInstallCall(editor))
    /\ UNCHANGED <<editor, env, probe>>

VsCodeInstall ==
    /\ editor.family = "vscode"
    /\ runs' = Remember(runs, VsCodeInstallCall(editor))
    /\ UNCHANGED <<editor, env, probe>>

\* The editor is started or closed, or the query tool comes and goes, between calls.
Probes == {"running", "not_running", "probe_failed"}
ProcessChange(p) ==
    /\ p # probe
    /\ probe' = p
    /\ UNCHANGED <<editor, env, runs>>

\* ------------------------------------------------------------------ hosts
WindowsVars == {"LOCALAPPDATA", "ProgramFiles", "ProgramFiles(x86)"}

Hosts ==
    [platform : {"linux", "macos"}, home : BOOLEAN, vars : {{}}, onPath : BOOLEAN,
     whichTool : {"works", "unavailable", "silent"}, disk : {{}},
     installer : {"exit0", "exit_nonzero", "spawn_fail"}]
    \cup
    [platform : {"windows"}, home : {TRUE}, vars : SUBSET WindowsVars, onPath : BOOLEAN,
     whichTool : {"works"}, disk : {{}},
     installer : {"exit0", "exit_nonzero", "spawn_fail"}]

ZedIdle == configDir = "none" /\ dirExists = FALSE /\ fileExists = FALSE
           /\ file = <<>> /\ hist = <<>>

InitCli ==
    /\ ZedIdle
    /\ editor \in Editors
    /\ probe \in Probes
    /\ runs = <<>>
    /\ \E h \in Hosts :
         /\ editor.family = "vscode" => h.whichTool = "works"
         /\ \E d \in SUBSET Range(IF editor.family = "vscode"
                                  THEN get_fallback_paths(editor, h)
                                  ELSE get_cli_paths(editor, h)) :
              env = [h EXCEPT !.disk = d]

NextCli ==
    \/ JetBrainsInstall /\ UNCHANGED zedVars
    \/ VsCodeInstall /\ UNCHANGED zedVars
    \/ \E p \in Probes : ProcessChange(p) /\ UNCHANGED zedVars

SpecCli == InitCli /\ [][NextCli]_vars

\* ------------------------------------------------------------------ views
\* What a reader of a settings text sees; used to state the claims.
IsPropNode(n) == n.k = "prop"
IsComment(tok) == tok \in Comments
IsCode(tok) == tok \notin Trivia

ViewRoot(text) ==
    LET p == Parse(text)
        vals == RootValueIndexes(p.root)
    IN  IF p.ok /\ vals # {} /\ p.root.ch[MinOf(vals)].k = "obj"
        THEN p.root.ch[MinOf(vals)] ELSE EmptyObject

ViewExtensions(rootObj) ==
    LET at == Get(rootObj, AIE)
    IN  IF at # 0 /\ PropValue(rootObj.ch[at]).k = "obj"
        THEN PropValue(rootObj.ch[at]) ELSE EmptyObject

Entries(obj) ==
    LET ps == SelectSeq(obj.ch, IsPropNode)
    IN  [i \in DOMAIN ps |-> <<PropName(ps[i]), to_string(PropValue(ps[i]))>>]

FirstAt(entries, name) ==
    LET hits == {i \in DOMAIN entries : entries[i][1] = name}
    IN  IF hits = {} THEN 0 ELSE MinOf(hits)

DropFirst(entries, name) ==
    IF FirstAt(entries, name) = 0 THEN entries ELSE RemoveAt(entries, FirstAt(entries, name))

\* Where the member of that name sits after the patch: where it was, or last.
PlaceAfter(entries, name) ==
    IF FirstAt(entries, name) = 0 THEN Len(entries) + 1 ELSE FirstAt(entries, name)

ShapeOf(text) ==
    LET p == Parse(text)
        vals == RootValueIndexes(p.root)
        rootNode == p.root.ch[MinOf(vals)]
        at == Get(rootNode, AIE)
    IN  IF ~p.ok THEN "invalid"
        ELSE IF vals = {} THEN "patchable"
        ELSE IF rootNode.k # "obj" THEN "root_not_object"
        ELSE IF at # 0 /\ PropValue(rootNode.ch[at]).k # "obj" THEN "extensions_not_object"
        ELSE "patchable"

\* The call that has just returned (each call is the last one in some state).
Calls == IF hist = <<>> THEN {} ELSE {hist[Len(hist)]}
Reached(c) == c.res # "no_config_dir"
TextRead(c) == ReadContent(c.pre.exists, c.pre.text)

RECURSIVE IsSubseq(_, _)
IsSubseq(a, b) ==
    IF a = <<>> THEN TRUE
    ELSE IF b = <<>> THEN FALSE
    ELSE IF Head(a) = Head(b) THEN IsSubseq(Tail(a), Tail(b))
    ELSE IsSubseq(a, Tail(b))

\* b is a with one value (a run of tokens) replaced by the single token tok.
ReplacesOneValue(a, b, tok) ==
    \E k \in 0..(Len(b) - 1) :
        /\ b[k + 1] = tok
        /\ Len(a) >= Len(b)
        /\ SubSeq(b, 1, k) = SubSeq(a, 1, k)
        /\ SubSeq(b, k + 2, Len(b)) = SubSeq(a, Len(a) - (Len(b) - k - 1) + 1, Len(a))

\* ------------------------------------------------------------------ claims: Zed
\* C1: a successful add_extension_to_settings changes only
\* root.auto_install_extensions.wakatime: every other member of the root and of
\* auto_install_extensions keeps its key, value and place, every comment is
\* kept in order, and the first auto_install_extensions.wakatime reads true.
\* Token for token: the text written is the text read with tokens inserted
\* (wakatime was missing) or with the old wakatime value replaced by true.
FrameOf(c) ==
    LET preRoot == ViewRoot(TextRead(c))
        postRoot == ViewRoot(c.post.text)
        preTop == Entries(preRoot)
        postTop == Entries(postRoot)
        preExt == Entries(ViewExtensions(preRoot))
        postExt == Entries(ViewExtensions(postRoot))
    IN  /\ DropFirst(postTop, AIE) = DropFirst(preTop, AIE)
        /\ FirstAt(postTop, AIE) = PlaceAfter(preTop, AIE)
        /\ DropFirst(postExt, WAKATIME) = DropFirst(preExt, WAKATIME)
        /\ FirstAt(postExt, WAKATIME) = PlaceAfter(preExt, WAKATIME)
        /\ postExt[FirstAt(postExt, WAKATIME)][2] = <<"true">>
        /\ SelectSeq(c.post.text, IsComment) = SelectSeq(TextRead(c), IsComment)
        /\ IF FirstAt(preExt, WAKATIME) = 0
           THEN IsSubseq(TextRead(c), c.post.text)
           ELSE ReplacesOneValue(TextRead(c), c.post.text, "true")

C1_PatchChangesOnlyWakatime == \A c \in Calls : c.res = "ok" => FrameOf(c)

C1_Witness ==
    \E c \in Calls :
        /\ c.res = "ok"
        /\ c.post.text # c.pre.text
        /\ Len(SelectSeq(c.pre.text, IsComment)) >= 2
        /\ Len(DropFirst(Entries(ViewRoot(c.pre.text)), AIE)) >= 2
        /\ FirstAt(Entries(ViewExtensions(ViewRoot(c.pre.text))), WAKATIME) = 2

\* C2: when the document read has a non-object root, or a non-object
\* auto_install_extensions, the call returns the matching shape error and the
\* file and its directory are exactly what they were.
C2_ShapeErrorLeavesFile ==
    \A c \in Calls :
        (Reached(c) /\ c.pre.exists /\ c.fault # "read"
         /\ ShapeOf(TextRead(c)) \in {"root_not_object", "extensions_not_object"})
        => c.res = ShapeOf(TextRead(c)) /\ c.post = c.pre

C2_Witness ==
    \E c \in Calls : /\ c.res = "extensions_not_object" /\ c.post = c.pre
                     /\ c.fault = "write"
                     /\ FirstAt(Entries(ViewRoot(c.pre.text)), AIE) = 2
                     /\ Len(Entries(ViewRoot(c.pre.text))) = 3

\* C3: when the file is non-blank and not valid tolerant JSON, the call fails
\* with the parse error (the read error when the read itself fails) and the
\* file and its directory are exactly what they were.
C3_ParseErrorLeavesFile ==
    \A c \in Calls :
        (Reached(c) /\ c.pre.exists /\ ~IsBlank(c.pre.text)
         /\ ShapeOf(c.pre.text) = "invalid")
        => /\ c.res = IF c.fault = "read" THEN "read_error" ELSE "parse_error"
           /\ c.post = c.pre

C3_Witness ==
    \E c \in Calls : c.res = "parse_error" /\ c.post = c.pre /\ c.fault = "write"
                     /\ WAKATIME \in Range(c.pre.text)

\* C4: after a successful install, the next install leaves the file content as
\* the first one left it, and succeeds too unless one of its I/O calls fails.
C4_PatchIdempotent ==
    \A i \in DOMAIN hist :
        (i + 1 \in DOMAIN hist /\ hist[i].res = "ok")
        => /\ hist[i + 1].post = hist[i].post
           /\ hist[i + 1].fault = "none" => hist[i + 1].res = "ok"

C4_Witness ==
    /\ Len(hist) >= 2
    /\ hist[1].res = "ok" /\ hist[2].res = "ok"
    /\ hist[1].pre.exists /\ hist[1].pre.text # hist[1].post.text
    /\ Entries(ViewExtensions(ViewRoot(hist[1].pre.text))) # <<>>

\* C5: on an absent or blank file, with no I/O failure, the call succeeds,
\* the directory and the file exist afterwards, and the file holds exactly
\* {"auto_install_extensions":{"wakatime":true}} apart from whitespace.
C5_BlankBecomesMinimalDocument ==
    \A c \in Calls :
        (Reached(c) /\ c.fault = "none" /\ (~c.pre.exists \/ IsBlank(c.pre.text)))
        => /\ c.res = "ok"
           /\ c.post.dir /\ c.post.exists
           /\ SelectSeq(c.post.text, IsCode)
                = <<"{", AIE, ":", "{", WAKATIME, ":", "true", "}", "}">>

C5_Witness ==
    \E c \in Calls : ~c.pre.exists /\ ~c.pre.dir /\ c.res = "ok" /\ c.post.dir
                     /\ c.post.exists

\* ------------------------------------------------------------------ claims: CLI
\* The call that has just returned (each call is the last one in some state).
Runs == IF runs = <<>> THEN {} ELSE {runs[Len(runs)]}

\* The host's answer to a search-path lookup of the editor's command:
\* the which crate (VS Code), `which` (JetBrains, not Windows), or starting
\* the command itself (JetBrains, Windows).
LookupFinds ==
    /\ env.onPath
    /\ (editor.family = "jetbrains" /\ env.platform # "windows") => env.whichTool = "works"

LookupResult ==
    IF editor.family = "jetbrains" /\ env.platform = "windows"
    THEN <<editor.cli_command>> ELSE OnPath(editor.cli_command)

FallbackList ==
    IF editor.family = "vscode" THEN get_fallback_paths(editor, env)
    ELSE get_cli_paths(editor, env)

Resolvable == LookupFinds \/ \E i \in DOMAIN FallbackList : FallbackList[i] \in env.disk

\* C6: when the search-path lookup finds the command, find_cli returns the
\* lookup's result and tests the existence of no fallback path, whatever
\* fallback paths exist.
C6_SearchPathFirst ==
    \A r \in Runs : LookupFinds => r.call.cli = Some(LookupResult) /\ r.call.probed = <<>>

C6_Witness ==
    \E r \in Runs : /\ LookupFinds /\ r.call.family = "jetbrains"
                    /\ FallbackList[1] \in env.disk
                    /\ r.call.cli = Some(LookupResult)

\* C7: when the search-path lookup finds nothing, find_cli returns the first
\* path of the fallback list that exists, and nothing when none exists.
C7_FirstExistingFallback ==
    \A r \in Runs :
        ~LookupFinds =>
            IF \E i \in DOMAIN FallbackList : FallbackList[i] \in env.disk
            THEN \E i \in DOMAIN FallbackList :
                    /\ r.call.cli = Some(FallbackList[i])
                    /\ FallbackList[i] \in env.disk
                    /\ \A j \in 1..(i - 1) : FallbackList[j] \notin env.disk
            ELSE r.call.cli = None

C7_Witness ==
    \E r \in Runs : /\ ~LookupFinds /\ Len(FallbackList) >= 3
                    /\ FallbackList[1] \notin env.disk
                    /\ FallbackList[2] \in env.disk /\ FallbackList[3] \in env.disk
                    /\ r.call.cli = Some(FallbackList[2])

\* C8 as claimed: with an unresolvable CLI, install() returns NotFound naming
\* the editor and no subprocess at all is started during the call.
C8_Original_NoSubprocess ==
    \A r \in Runs :
        ~Resolvable => r.result = Result("NotFound", editor.name) /\ r.procs = <<>>

\* C8 amended: with an unresolvable CLI, install() returns NotFound naming the
\* editor and never launches the installer; VsCodeFamily starts no subprocess,
\* JetBrainsFamily starts at most its process-table query and its `which` lookup.
IsQuery(argv) == argv[1] \in {<<"pgrep">>, <<"tasklist">>, <<"which">>}

C8_NotFoundNoInstaller ==
    \A r \in Runs :
        ~Resolvable =>
            /\ r.result = Result("NotFound", editor.name)
            /\ r.installs = <<>>
            /\ r.call.family = "vscode" => r.procs = <<>>
            /\ \A i \in DOMAIN r.procs : IsQuery(r.procs[i])

C8_Witness ==
    \E r \in Runs : /\ ~Resolvable /\ r.call.family = "vscode"
                    /\ env.installer = "exit0"
                    /\ r.result.kind = "NotFound"

\* C9: install() returns Ok exactly when the CLI is resolvable and the
\* installer starts and exits 0; a non-zero exit and a failed start are both
\* errors; the installer is launched at most once per call.
C9_OkIffInstallerExitsZero ==
    \A r \in Runs :
        /\ r.result.kind = "Ok" <=> (Resolvable /\ env.installer = "exit0")
        /\ (Resolvable /\ env.installer = "exit_nonzero") => r.result.kind = "ExitFailure"
        /\ (Resolvable /\ env.installer = "spawn_fail") => r.result.kind = "SpawnFailure"
        /\ Len(r.installs) <= 1
        /\ Resolvable => Len(r.installs) = 1

C9_Witness ==
    \E r \in Runs : /\ Resolvable /\ env.installer = "exit_nonzero"
                    /\ r.result.kind = "ExitFailure" /\ Len(r.installs) = 1

\* C10: in JetBrainsFamily::install the running-editor check only decides the
\* warning: two calls on the same host return the same result, resolve the same
\* CLI and launch the same installer whatever the check reported.
C10_RunningCheckAdvisory ==
    \A i, j \in DOMAIN runs :
        runs[i].call.family = "jetbrains" =>
            /\ runs[i].result = runs[j].result
            /\ runs[i].call.cli = runs[j].call.cli
            /\ runs[i].installs = runs[j].installs
            /\ runs[i].call.warned <=> runs[i].call.probe = "running"
            /\ runs[i].result.kind # "EditorRunning"

C10_Witness ==
    /\ Len(runs) = 2
    /\ runs[1].call.family = "jetbrains"
    /\ runs[1].call.probe = "running" /\ runs[1].call.warned
    /\ runs[2].call.probe = "probe_failed"
    /\ runs[1].result.kind = "Ok" /\ runs[2].result.kind = "Ok"

====
